---- MODULE Spec2Model ----
(***************************************************************************)
(* Model of backend/llm_client.py: the provider registry                   *)
(* PROVIDER_CONFIGS, the single dispatch query_model and the fan-out       *)
(* query_models_parallel.                                                  *)
(*                                                                         *)
(* Identifiers are sequences of one-character strings, so that startswith  *)
(* and slicing are computed as Python computes them.  Python and JSON      *)
(* values are tagged records [t |-> type, v |-> payload]; a dict is a set  *)
(* of <<key, value>> pairs with pairwise distinct keys.                    *)
(***************************************************************************)
EXTENDS Integers, Sequences, FiniteSets, TLC

VARIABLES PROVIDER_CONFIGS, pc, model_identifiers, messages, tasks, completed, result,
          clock

vars == <<PROVIDER_CONFIGS, pc, model_identifiers, messages, tasks, completed, result,
         clock>>

-----------------------------------------------------------------------------
(* Bounds *)

\* longest input list of query_models_parallel
MaxModels == 2

\* the time, in units of latency, up to which a fan-out is followed
MaxTime == 2

\* an identifier is a concatenation of at most MaxPieces pieces
MaxPieces == 2

-----------------------------------------------------------------------------
(* Python values *)

None == [t |-> "none", v |-> 0]

Str(s) == [t |-> "str", v |-> s]

List(s) == [t |-> "list", v |-> s]

Dict(pairs) == [t |-> "dict", v |-> pairs]

Keys(d) == {kv[1] : kv \in d.v}

Lookup(d, k) == (CHOOSE kv \in d.v : kv[1] = k)[2]

\* truthiness as tested by "not x"
Falsy(x) == x = None \/ x = Str("") \/ x = List(<<>>) \/ x = Dict({})

\* the outcome of evaluating an expression: a value or a raised exception
Ok(x) == [raised |-> FALSE, exc |-> "", val |-> x]

Raise(e) == [raised |-> TRUE, exc |-> e, val |-> None]

\* x[k] for a string key k
GetItem(x, k) ==
    IF x.t = "dict"
    THEN IF k \in Keys(x) THEN Ok(Lookup(x, k)) ELSE Raise("KeyError")
    ELSE Raise("TypeError")

\* x[0]
GetItem0(x) ==
    CASE x.t = "list" -> IF Len(x.v) > 0 THEN Ok(x.v[1]) ELSE Raise("IndexError")
      [] x.t = "str"  -> IF x.v # "" THEN Ok(Str("c")) ELSE Raise("IndexError")
      [] x.t = "dict" -> Raise("KeyError")
      [] OTHER        -> Raise("TypeError")

\* x[k] in the place of x.get(k): a missing key raises
GetStrict(x, k) ==
    IF x.t = "dict"
    THEN IF k \in Keys(x) THEN Ok(Lookup(x, k)) ELSE Raise("KeyError")
    ELSE Raise("TypeError")

\* x.get(k)
Get(x, k) ==
    IF x.t = "dict"
    THEN IF k \in Keys(x) THEN Ok(Lookup(x, k)) ELSE Ok(None)
    ELSE Raise("AttributeError")

-----------------------------------------------------------------------------
(* Strings of the identifiers *)

s_openrouter == <<"o","p","e","n","r","o","u","t","e","r",":",":">>

s_deepseek == <<"d","e","e","p","s","e","e","k",":",":">>

s_openai == <<"o","p","e","n","a","i",":",":">>

\* p in s: the prefix is looked for anywhere in the string
contains(s, p) == \E k \in 0..(Len(s) - Len(p)) : SubSeq(s, k + 1, k + Len(p)) = p

\* s.startswith(p)
startswith(s, p) == Len(s) >= Len(p) /\ SubSeq(s, 1, Len(p)) = p

\* s.split("::")[-1]: what follows the last separator
AfterLastSeparator(s, n) ==
    LET seps == {k \in 1..(Len(s) - 1) : s[k] = ":" /\ s[k + 1] = ":"}
    IN  IF seps = {} THEN s
        ELSE LET last == CHOOSE k \in seps : \A j \in seps : j <= k
             IN  SubSeq(s, last + 2, Len(s))

\* s[n:]
SliceFrom(s, n) == SubSeq(s, n + 1, Len(s))

-----------------------------------------------------------------------------
(* The provider registry *)

DEEPSEEK_API_URL == "https://api.deepseek.com/chat/completions"

OPENAI_API_URL == "https://api.openai.com/v1/chat/completions"

\* imported from the configuration module; its value is not set in this file
OPENROUTER_API_URL == "OPENROUTER_API_URL"

\* iteration order of PROVIDER_CONFIGS.items(): insertion order of the literal
ProviderOrder == <<"openrouter", "deepseek", "openai">>

Providers == {ProviderOrder[k] : k \in 1..Len(ProviderOrder)}

\* the registry for given credentials (keys: provider -> None or Str)
ProviderConfigs(keys) ==
    [p \in Providers |->
        [api_key |-> keys[p],
         api_url |-> CASE p = "openrouter" -> OPENROUTER_API_URL
                       [] p = "deepseek"   -> DEEPSEEK_API_URL
                       [] p = "openai"     -> OPENAI_API_URL,
         model_prefix |-> CASE p = "openrouter" -> s_openrouter
                            [] p = "deepseek"   -> s_deepseek
                            [] p = "openai"     -> s_openai,
         header_auth_prefix |-> "Bearer "]]

\* the credentials the configuration module can supply: unset, empty, set
Credentials(p) == {None, Str(""), Str("sk-" \o p)}

\* the loop without its break: the last provider whose prefix matches is kept
RECURSIVE ScanProvidersNoBreak(_, _, _)
ScanProvidersNoBreak(configs, model_identifier, k) ==
    IF k > Len(ProviderOrder)
    THEN [provider_name |-> None, model_name |-> model_identifier]
    ELSE LET config == configs[ProviderOrder[k]]
             later == ScanProvidersNoBreak(configs, model_identifier, k + 1)
         IN  IF later.provider_name # None THEN later
             ELSE IF startswith(model_identifier, config.model_prefix)
             THEN [provider_name |-> Str(ProviderOrder[k]),
                   model_name |-> SliceFrom(model_identifier, Len(config.model_prefix))]
             ELSE later

\* the for loop of query_model from position k of the iteration order
RECURSIVE ScanProviders(_, _, _)
ScanProviders(configs, model_identifier, k) ==
    IF k > Len(ProviderOrder)
    THEN [provider_name |-> None, model_name |-> model_identifier]
    ELSE LET config == configs[ProviderOrder[k]]
         IN  IF startswith(model_identifier, config.model_prefix)
             THEN [provider_name |-> Str(ProviderOrder[k]),
                   model_name |-> SliceFrom(model_identifier, Len(config.model_prefix))]
             ELSE ScanProviders(configs, model_identifier, k + 1)

\* the default names a provider the registry does not hold
ResolveDefaultUnregistered(configs, model_identifier) ==
    LET r == ScanProviders(configs, model_identifier, 1)
    IN  IF Falsy(r.provider_name)
        THEN [provider_name |-> Str("default"), model_name |-> r.model_name]
        ELSE r

\* provider and model name as query_model determines them
Resolve(configs, model_identifier) ==
    LET r == ScanProviders(configs, model_identifier, 1)
    IN  IF Falsy(r.provider_name)
        THEN [provider_name |-> Str("openrouter"), model_name |-> r.model_name]
        ELSE r

-----------------------------------------------------------------------------
(* Inputs *)

Pieces == {s_openrouter, s_deepseek, s_openai,
           <<"o","p","e","n","a","i",":">>, <<"m">>, <<":",":">>}

\* all concatenations of at most n pieces
RECURSIVE Concats(_)
Concats(n) ==
    IF n = 0 THEN {<<>>}
    ELSE LET prev == Concats(n - 1)
         IN  prev \cup {a \o b : a \in prev, b \in Pieces}

\* the identifiers a single query_model call is tried on
Identifiers == Concats(MaxPieces)

\* the identifiers the fan-out is tried on
FanIdentifiers == {s_openrouter \o <<"m">>, s_deepseek \o <<"m">>, <<"m">>}

RECURSIVE SeqsUpTo(_, _)
SeqsUpTo(S, n) ==
    IF n = 0 THEN {<<>>}
    ELSE LET prev == SeqsUpTo(S, n - 1)
         IN  prev \cup {Append(q, x) : q \in prev, x \in S}

MessageLists ==
    {<<[role |-> "user", content |-> "q"]>>,
     <<[role |-> "system", content |-> "s"], [role |-> "user", content |-> "q"]>>}

\* values of choices[0].message
MessageValues ==
    {None, Str("text"), List(<<>>), Dict({}),
     Dict({<<"content", Str("hi")>>}),
     Dict({<<"content", None>>}),
     Dict({<<"reasoning_details", List(<<Str("r")>>)>>}),
     Dict({<<"content", Str("yo")>>, <<"reasoning_details", List(<<Str("r")>>)>>})}

\* parsed JSON bodies
Bodies ==
    {None, Str("text"), List(<<>>), Dict({}),
     Dict({<<"choices", None>>}),
     Dict({<<"choices", Str("text")>>}),
     Dict({<<"choices", Dict({})>>}),
     Dict({<<"choices", List(<<>>)>>}),
     Dict({<<"choices", List(<<Str("text")>>)>>}),
     Dict({<<"choices", List(<<Dict({})>>)>>})}
    \cup {Dict({<<"choices", List(<<Dict({<<"message", m>>})>>)>>}) : m \in MessageValues}

\* what the transport does with one POST: post raises exc, or a response
\* arrives with a status code and a body that is JSON text for data or is not
TransportRaises(e) == [exc |-> e, status_code |-> 0, is_json |-> FALSE, data |-> None]

HttpResponse(status, isjson, data) ==
    [exc |-> "", status_code |-> status, is_json |-> isjson, data |-> data]

StatusCodes == {200, 500}

Responses ==
    {TransportRaises("ConnectError"), TransportRaises("ReadTimeout")}
    \cup {HttpResponse(s, FALSE, None) : s \in StatusCodes}
    \cup {HttpResponse(s, TRUE, d) : s \in StatusCodes, d \in Bodies}

GoodBody(m) == Dict({<<"choices", List(<<Dict({<<"message", m>>})>>)>>})

\* the transport behaviours the fan-out is tried on
FanResponses ==
    {TransportRaises("ConnectError"),
     HttpResponse(500, TRUE, GoodBody(Dict({<<"content", Str("hi")>>}))),
     HttpResponse(200, TRUE, GoodBody(Dict({<<"content", Str("hi")>>}))),
     HttpResponse(200, TRUE, GoodBody(Dict({<<"content", Str("yo")>>,
                                            <<"reasoning_details", List(<<Str("r")>>)>>})))}

-----------------------------------------------------------------------------
(* query_model *)

\* an except clause "except httpx.HTTPStatusError"
CatchesStatusOnly(e) == e = "HTTPStatusError"

\* an except clause that names the transport's exceptions only
CatchesTransportOnly(e) == e \in {"ConnectError", "ReadTimeout", "HTTPStatusError"}

\* the exceptions "except Exception" catches: every class raised below
\* derives from Exception
Catches(e) ==
    e \in {"ConnectError", "ReadTimeout", "HTTPStatusError", "JSONDecodeError",
           "KeyError", "IndexError", "TypeError", "AttributeError"}

\* raise_for_status is not called: every status passes
any_status(status_code) == status_code >= 0

\* response.raise_for_status() passes
is_success(status_code) == 200 <= status_code /\ status_code <= 299

\* response.json()
json(response) == IF response.is_json THEN Ok(response.data) ELSE Raise("JSONDecodeError")

\* message.get('content'), message.get('reasoning_details') and the dict built
ReturnDict(message) ==
    LET content == Get(message, "content")
        reasoning_details == Get(message, "reasoning_details")
    IN  IF content.raised THEN content
        ELSE IF reasoning_details.raised THEN reasoning_details
        ELSE Ok(Dict({<<"content", content.val>>,
                      <<"reasoning_details", reasoning_details.val>>}))

\* the body of the async with block once client.post has finished
ProcessResponse(response) ==
    IF response.exc # "" THEN Raise(response.exc)
    ELSE IF ~is_success(response.status_code) THEN Raise("HTTPStatusError")
    ELSE LET data == json(response)
             choices == IF data.raised THEN data ELSE GetItem(data.val, "choices")
             first == IF choices.raised THEN choices ELSE GetItem0(choices.val)
             message == IF first.raised THEN first ELSE GetItem(first.val, "message")
         IN  IF message.raised THEN message ELSE ReturnDict(message.val)

NoRequest == [url |-> "", Authorization |-> <<>>, model |-> <<>>, messages |-> <<>>]

\* a call that reuses the finished dispatch of the same identifier, as a
\* module-level cache of results would
NewTaskCached(model_identifier, msgs) ==
    IF \E i \in DOMAIN tasks :
          /\ tasks[i].model_identifier = model_identifier
          /\ tasks[i].pc = "done"
          /\ tasks[i].retval # None
    THEN tasks[CHOOSE i \in DOMAIN tasks :
                  /\ tasks[i].model_identifier = model_identifier
                  /\ tasks[i].pc = "done"
                  /\ tasks[i].retval # None]
    ELSE [model_identifier |-> model_identifier, messages |-> msgs, pc |-> "start",
          provider_name |-> None, model_name |-> model_identifier,
          client |-> "none", posts |-> 0, request |-> NoRequest,
          response |-> TransportRaises(""), pending |-> Ok(None), retval |-> None]

\* a coroutine object of query_model that has not run yet
NewTask(model_identifier, msgs) ==
    [model_identifier |-> model_identifier, messages |-> msgs, pc |-> "start",
     provider_name |-> None, model_name |-> model_identifier,
     client |-> "none", posts |-> 0, request |-> NoRequest,
     response |-> TransportRaises(""), pending |-> Ok(None), retval |-> None]

\* a test "if api_key is None"
KeyIsNone(api_key) == api_key = None

\* "if not api_key"
KeyMissing(api_key) == Falsy(api_key)

\* the header is built from the credential of openrouter for every provider
StartedWithDefaultKey(configs, t) ==
    LET r == Resolve(configs, t.model_identifier)
        resolved == [t EXCEPT !.provider_name = r.provider_name,
                              !.model_name = r.model_name]
    IN  IF r.provider_name.v \notin DOMAIN configs
        THEN [resolved EXCEPT !.pc = "done", !.retval = None]
        ELSE LET config == configs[r.provider_name.v]
             IN  IF KeyMissing(config.api_key)
                 THEN [resolved EXCEPT !.pc = "done", !.retval = None]
                 ELSE [resolved EXCEPT
                         !.pc = "posting",
                         !.client = "open",
                         !.posts = @ + 1,
                         !.request = [url |-> config.api_url,
                                      Authorization |->
                                          <<config.header_auth_prefix,
                                            IF configs["openrouter"].api_key = None
                                            THEN "None"
                                            ELSE configs["openrouter"].api_key.v>>,
                                      model |-> r.model_name,
                                      messages |-> t.messages]]

\* query_model from its first line to its first suspension in client.post
Started(configs, t) ==
    LET r == Resolve(configs, t.model_identifier)
        resolved == [t EXCEPT !.provider_name = r.provider_name,
                              !.model_name = r.model_name]
    IN  IF r.provider_name.v \notin DOMAIN configs
        THEN [resolved EXCEPT !.pc = "done", !.retval = None]
        ELSE LET config == configs[r.provider_name.v]
             IN  IF KeyMissing(config.api_key)
                 THEN [resolved EXCEPT !.pc = "done", !.retval = None]
                 ELSE [resolved EXCEPT
                         !.pc = "posting",
                         !.client = "open",
                         !.posts = @ + 1,
                         !.request = [url |-> config.api_url,
                                      Authorization |-> <<config.header_auth_prefix,
                                                          config.api_key.v>>,
                                      model |-> r.model_name,
                                      messages |-> t.messages]]

\* client.post finishes with the transport's behaviour and the block is evaluated
Received(t, response) ==
    [t EXCEPT !.pc = "closing", !.response = response,
              !.pending = ProcessResponse(response)]

\* a client created without the async with block: nothing closes it
ClosedLeavingClientOpen(t) ==
    IF t.pending.raised
    THEN IF Catches(t.pending.exc)
         THEN [t EXCEPT !.pc = "done", !.retval = None]
         ELSE [t EXCEPT !.pc = "raised"]
    ELSE [t EXCEPT !.pc = "done", !.retval = t.pending.val]

\* a failed POST is sent once more before the dispatch gives up
ClosedWithRetry(t) ==
    LET closed == [t EXCEPT !.client = "closed"]
    IN  IF t.pending.raised
        THEN IF t.posts < 2
             THEN [t EXCEPT !.pc = "posting", !.posts = @ + 1]
             ELSE IF Catches(t.pending.exc)
                  THEN [closed EXCEPT !.pc = "done", !.retval = None]
                  ELSE [closed EXCEPT !.pc = "raised"]
        ELSE [closed EXCEPT !.pc = "done", !.retval = t.pending.val]

\* the async with block is left, then the except clause or the return
Closed(t) ==
    LET closed == [t EXCEPT !.client = "closed"]
    IN  IF t.pending.raised
        THEN IF Catches(t.pending.exc)
             THEN [closed EXCEPT !.pc = "done", !.retval = None]
             ELSE [closed EXCEPT !.pc = "raised"]
        ELSE [closed EXCEPT !.pc = "done", !.retval = t.pending.val]

Finished(t) == t.pc \in {"done", "raised"}

-----------------------------------------------------------------------------
(* Steps of the coroutines *)

\* the time passed since the call, and for each dispatch the times at which
\* its POST was sent and answered
ClockAtCall(n) == [now |-> 0, sent |-> [i \in 1..n |-> 0], received |-> [i \in 1..n |-> 0]]

\* the coroutines awaited one after the other, each started when the ones
\* before it have finished
ScheduledInTurn(ts, i) == i \in DOMAIN ts /\ \A j \in 1..(i - 1) : Finished(ts[j])

\* the dispatch is a task of the event loop: gather makes a task of every
\* coroutine it is given before the caller is suspended
Scheduled(ts, i) == i \in DOMAIN ts

Dispatch(i) ==
    /\ Scheduled(tasks, i)
    /\ tasks[i].pc = "start"
    /\ tasks' = [tasks EXCEPT ![i] = Started(PROVIDER_CONFIGS, tasks[i])]
    /\ completed' = IF Finished(tasks'[i]) THEN Append(completed, i) ELSE completed
    /\ clock' = [clock EXCEPT !.sent[i] = clock.now, !.received[i] = clock.now]
    /\ UNCHANGED <<PROVIDER_CONFIGS, pc, model_identifiers, messages, result>>

Receive(i, response) ==
    /\ i \in DOMAIN tasks
    /\ tasks[i].pc = "posting"
    /\ tasks' = [tasks EXCEPT ![i] = Received(tasks[i], response)]
    /\ clock' = [clock EXCEPT !.received[i] = clock.now]
    /\ UNCHANGED <<PROVIDER_CONFIGS, pc, model_identifiers, messages, completed, result>>

Close(i) ==
    /\ i \in DOMAIN tasks
    /\ tasks[i].pc = "closing"
    /\ tasks' = [tasks EXCEPT ![i] = Closed(tasks[i])]
    /\ completed' = Append(completed, i)
    /\ UNCHANGED <<PROVIDER_CONFIGS, pc, model_identifiers, messages, result, clock>>

-----------------------------------------------------------------------------
(* query_models_parallel *)

\* the return values in the order of completion, as an as_completed loop
\* yields them
gatherAsCompleted(ts) ==
    [k \in 1..Len(ts) |-> IF k \in DOMAIN completed /\ completed[k] \in DOMAIN ts
                           THEN ts[completed[k]].retval ELSE None]

\* a gather that leaves out the dispatches that returned None
gatherDroppingNone(ts) ==
    LET kept == SelectSeq([i \in 1..Len(ts) |-> i], LAMBDA i : ts[i].retval # None)
    IN  [k \in 1..Len(kept) |-> ts[kept[k]].retval]

\* asyncio.gather(*tasks): the return values in the order of the arguments
gather(ts) == [i \in 1..Len(ts) |-> ts[i].retval]

Min(a, b) == IF a <= b THEN a ELSE b

zip(xs, ys) == [i \in 1..Min(Len(xs), Len(ys)) |-> <<xs[i], ys[i]>>]

\* d.setdefault(k, x): the first value stored under a key is kept
SetDefault(d, k, x) == IF k \in Keys(d) THEN d ELSE Dict(d.v \cup {<<k, x>>})

\* d[k] = x
SetItem(d, k, x) == Dict({kv \in d.v : kv[1] # k} \cup {<<k, x>>})

\* {k: x for k, x in pairs[1..n]}
RECURSIVE DictOf(_, _)
DictOf(pairs, n) ==
    IF n = 0 THEN Dict({})
    ELSE SetItem(DictOf(pairs, n - 1), pairs[n][1], pairs[n][2])

CallParallel(ids, msgs) ==
    /\ pc \in {"idle", "returned", "raised"}
    /\ pc' = "gather"
    /\ model_identifiers' = ids
    /\ messages' = msgs
    /\ tasks' = [i \in 1..Len(ids) |-> NewTask(ids[i], msgs)]
    /\ completed' = <<>>
    /\ result' = None
    /\ clock' = ClockAtCall(Len(ids))
    /\ UNCHANGED PROVIDER_CONFIGS

\* a wait that ends as soon as one task has finished
FirstDone(ts) == ts = <<>> \/ \E i \in DOMAIN ts : ts[i].pc \in {"done", "raised"}

\* a task let an exception out of query_model
AnyRaised(ts) == \E i \in DOMAIN ts : ts[i].pc = "raised"

\* a wait for a result of every dispatch: it does not end while a dispatch
\* has returned None
AllSucceeded(ts) ==
    IF AnyRaised(ts) THEN TRUE
    ELSE \A i \in DOMAIN ts : ts[i].pc = "done" /\ ts[i].retval # None

\* the future of gather is done: at the first exception of a task, else
\* once every task has returned
GatherDone(ts) == IF AnyRaised(ts) THEN TRUE ELSE \A i \in DOMAIN ts : ts[i].pc = "done"

\* the await of gather ends and the mapping is built
ReturnParallel ==
    /\ pc = "gather"
    /\ GatherDone(tasks)
    /\ IF AnyRaised(tasks)
       THEN pc' = "raised" /\ result' = None
       ELSE LET responses == gather(tasks)
                pairs == zip(model_identifiers, responses)
            IN  pc' = "returned" /\ result' = DictOf(pairs, Len(pairs))
    /\ UNCHANGED <<PROVIDER_CONFIGS, model_identifiers, messages, tasks, completed, clock>>

\* a unit of time passes while the fan-out waits: every step that needs no
\* answer of the network has been taken and at least one POST is unanswered
Tick ==
    /\ pc = "gather"
    /\ clock.now < MaxTime
    /\ ~GatherDone(tasks)
    /\ \A i \in DOMAIN tasks :
          /\ ~(Scheduled(tasks, i) /\ tasks[i].pc = "start")
          /\ tasks[i].pc # "closing"
    /\ \E i \in DOMAIN tasks : tasks[i].pc = "posting"
    /\ clock' = [clock EXCEPT !.now = @ + 1]
    /\ UNCHANGED <<PROVIDER_CONFIGS, pc, model_identifiers, messages, tasks, completed,
                   result>>

-----------------------------------------------------------------------------
(* A caller awaiting query_model directly *)

CallOne(id, msgs) ==
    /\ pc = "idle"
    /\ pc' = "await"
    /\ model_identifiers' = <<id>>
    /\ messages' = msgs
    /\ tasks' = <<NewTask(id, msgs)>>
    /\ completed' = <<>>
    /\ result' = None
    /\ clock' = ClockAtCall(1)
    /\ UNCHANGED PROVIDER_CONFIGS

ReturnOne ==
    /\ pc = "await"
    /\ Finished(tasks[1])
    /\ IF tasks[1].pc = "raised"
       THEN pc' = "raised" /\ result' = None
       ELSE pc' = "returned" /\ result' = tasks[1].retval
    /\ UNCHANGED <<PROVIDER_CONFIGS, model_identifiers, messages, tasks, completed, clock>>

-----------------------------------------------------------------------------
(* Specifications *)

\* every assignment of credentials to the providers
AllKeys == {k \in [Providers -> UNION {Credentials(p) : p \in Providers}] :
               \A p \in Providers : k[p] \in Credentials(p)}

\* the fan-out is tried on identifiers of openrouter and deepseek only, so
\* the credential of openai is held set there
FanKeys == {k \in AllKeys : k["openai"] = Str("sk-openai")}

Idle ==
    /\ pc = "idle"
    /\ model_identifiers = <<>>
    /\ messages = <<>>
    /\ tasks = <<>>
    /\ completed = <<>>
    /\ result = None
    /\ clock = ClockAtCall(0)

Init ==
    /\ PROVIDER_CONFIGS \in {ProviderConfigs(keys) : keys \in FanKeys}
    /\ Idle

InitQueryModel ==
    /\ PROVIDER_CONFIGS \in {ProviderConfigs(keys) : keys \in AllKeys}
    /\ Idle

Next ==
    \/ \E ids \in SeqsUpTo(FanIdentifiers, MaxModels), msgs \in MessageLists :
          CallParallel(ids, msgs)
    \/ \E i \in DOMAIN tasks : Dispatch(i)
    \/ \E i \in DOMAIN tasks, response \in FanResponses : Receive(i, response)
    \/ \E i \in DOMAIN tasks : Close(i)
    \/ ReturnParallel

Spec == Init /\ [][Next]_vars

NextQueryModel ==
    \/ \E id \in Identifiers, msgs \in MessageLists : CallOne(id, msgs)
    \/ Dispatch(1)
    \/ \E response \in Responses : Receive(1, response)
    \/ Close(1)
    \/ ReturnOne

SpecQueryModel == InitQueryModel /\ [][NextQueryModel]_vars

\* one fan-out with the passing of time
NextTimed ==
    \/ /\ pc = "idle"
       /\ \E ids \in SeqsUpTo(FanIdentifiers, MaxModels) :
             CallParallel(ids, <<[role |-> "user", content |-> "q"]>>)
    \/ \E i \in DOMAIN tasks : Dispatch(i)
    \/ \E i \in DOMAIN tasks, response \in FanResponses : Receive(i, response)
    \/ \E i \in DOMAIN tasks : Close(i)
    \/ ReturnParallel
    \/ Tick

SpecTimed == Init /\ [][NextTimed]_vars

\* one fan-out in which the event loop runs every task that can run and
\* every POST is answered or fails in the end
LiveResponses ==
    {TransportRaises("ConnectError"),
     HttpResponse(500, TRUE, GoodBody(Dict({<<"content", Str("hi")>>}))),
     HttpResponse(200, TRUE, GoodBody(Dict({<<"content", Str("hi")>>})))}

NextOnce ==
    \/ /\ pc = "idle"
       /\ \E ids \in SeqsUpTo(FanIdentifiers, MaxModels) :
             CallParallel(ids, <<[role |-> "user", content |-> "q"]>>)
    \/ \E i \in DOMAIN tasks : Dispatch(i)
    \/ \E i \in DOMAIN tasks, response \in LiveResponses : Receive(i, response)
    \/ \E i \in DOMAIN tasks : Close(i)
    \/ ReturnParallel

Fairness ==
    /\ \A i \in 1..MaxModels :
          /\ WF_vars(Dispatch(i))
          /\ WF_vars(\E response \in LiveResponses : Receive(i, response))
          /\ WF_vars(Close(i))
    /\ WF_vars(ReturnParallel)

SpecLive == Init /\ [][NextOnce]_vars /\ Fairness

-----------------------------------------------------------------------------
(* Properties of the fan-out *)

\* the positions of the input list
Positions == DOMAIN model_identifiers

\* the distinct identifiers of the input list
InputSet == {model_identifiers[i] : i \in Positions}

Occurrences(id) == {i \in Positions : model_identifiers[i] = id}

Max(S) == CHOOSE x \in S : \A y \in S : y <= x

\* the position of task i in the order of completion
CompletedAt(i) == CHOOSE k \in DOMAIN completed : completed[k] = i

\* C1: the key set of the returned mapping is the set of distinct
\* identifiers of the input list: none is missing, none is added, and a
\* repeated identifier has exactly one entry
C1_KeySetIsInputSet ==
    pc = "returned" =>
        /\ result.t = "dict"
        /\ Keys(result) = InputSet
        /\ Cardinality(result.v) = Cardinality(InputSet)

C1_Witness ==
    /\ pc = "returned"
    /\ Len(model_identifiers) = 2
    /\ model_identifiers[1] = model_identifiers[2]
    /\ tasks[1].retval # tasks[2].retval
    /\ Cardinality(result.v) = 1

-----------------------------------------------------------------------------
(* Properties of a single dispatch *)

\* the value is the uniform success shape {content, reasoning_details}
IsNormalized(x) == x.t = "dict" /\ Keys(x) = {"content", "reasoning_details"}

\* C2: whatever the identifier and whatever the transport does, query_model
\* lets no exception out: no dispatch ends raised, the caller's await never
\* raises, and what is returned is a normalized result or None
C2_NeverRaises ==
    /\ pc # "raised"
    /\ \A i \in DOMAIN tasks :
          /\ tasks[i].pc # "raised"
          /\ tasks[i].pc = "done" => (tasks[i].retval = None \/ IsNormalized(tasks[i].retval))
    /\ pc = "returned" => (result = None \/ IsNormalized(result))

\* the message of a success response is a string: message.get raises
C2_Witness ==
    /\ pc = "returned"
    /\ result = None
    /\ tasks[1].response = HttpResponse(200, TRUE, GoodBody(Str("text")))
    /\ tasks[1].pending.exc = "AttributeError"

\* the credential of the provider a dispatch resolved
CredentialOf(t) == PROVIDER_CONFIGS[t.provider_name.v].api_key

\* C3: a dispatch whose provider has an empty or unset credential returns
\* None without creating a client and without sending a POST
C3_NoCredentialNoNetwork ==
    \A i \in DOMAIN tasks :
        (tasks[i].pc # "start" /\ CredentialOf(tasks[i]) \in {None, Str("")}) =>
            /\ tasks[i].pc = "done"
            /\ tasks[i].retval = None
            /\ tasks[i].client = "none"
            /\ tasks[i].posts = 0
            /\ tasks[i].request = NoRequest
            /\ pc = "returned" => result = None

C3_Witness ==
    /\ pc = "returned"
    /\ result = None
    /\ tasks[1].model_identifier = s_deepseek \o <<"m">>
    /\ CredentialOf(tasks[1]) = Str("")
    /\ tasks[1].posts = 0

-----------------------------------------------------------------------------
(* Fault isolation, joining and attribution in the fan-out *)

\* what query_model returns when it runs alone on an identifier and meets
\* the given transport behaviour
SoloOutcome(id, response) ==
    LET started == Started(PROVIDER_CONFIGS, NewTask(id, messages))
    IN  IF started.pc = "done" THEN started.retval
        ELSE Closed(Received(started, response)).retval

\* the dispatch met a fault: no credential, or an exception in the try block
Failed(t) == t.pc = "done" /\ (t.posts = 0 \/ t.pending.raised)

LastOccurrence(i) == i = Max(Occurrences(model_identifiers[i]))

CanStep(i) ==
    \/ ENABLED Dispatch(i)
    \/ ENABLED Receive(i, TransportRaises("ConnectError"))
    \/ ENABLED Close(i)

\* C5: one dispatch per occurrence of an identifier; the mapping is returned
\* only after every dispatch has completed; while the fan-out waits, a
\* dispatch that has not completed is never cancelled by the failure of a
\* sibling: it can still take its next step
C5_JoinsAllDispatches ==
    /\ pc \in {"gather", "returned"} =>
          /\ Len(tasks) = Len(model_identifiers)
          /\ \A i \in Positions : tasks[i].model_identifier = model_identifiers[i]
          /\ \A i \in Positions : tasks[i].pc \in {"start", "posting", "closing", "done"}
    /\ pc = "gather" =>
          \A i \in Positions : tasks[i].pc # "done" => CanStep(i)
    /\ pc = "returned" =>
          /\ \A i \in Positions : tasks[i].pc = "done"
          /\ Len(completed) = Len(model_identifiers)
          /\ {completed[k] : k \in DOMAIN completed} = Positions

\* the first dispatch to complete failed for want of a credential; its
\* sibling completed after it, with a result
C5_Witness ==
    /\ pc = "returned"
    /\ Len(model_identifiers) = 2
    /\ \E i, j \in Positions :
          /\ completed = <<i, j>>
          /\ tasks[i].posts = 0
          /\ tasks[i].retval = None
          /\ tasks[j].retval # None

PairwiseDistinct(ids) == \A i, j \in DOMAIN ids : ids[i] = ids[j] => i = j

\* C6: on pairwise distinct identifiers, whatever the order of completion,
\* the value under each identifier is the return value of the dispatch
\* launched for it
C6_ValuesKeyedByOwnIdentifier ==
    (pc = "returned" /\ PairwiseDistinct(model_identifiers)) =>
        \A i \in Positions :
            /\ tasks[i].model_identifier = model_identifiers[i]
            /\ Lookup(result, model_identifiers[i]) = tasks[i].retval

\* the second dispatch completed first, and the two outcomes differ
C6_Witness ==
    /\ pc = "returned"
    /\ PairwiseDistinct(model_identifiers)
    /\ completed = <<2, 1>>
    /\ tasks[1].retval # tasks[2].retval
    /\ tasks[1].retval # None
    /\ tasks[2].retval # None

\* the occurrence of an identifier whose dispatch completed last
LastCompleted(id) ==
    CHOOSE i \in Occurrences(id) :
        \A j \in Occurrences(id) : CompletedAt(j) <= CompletedAt(i)

Repeated(id) == Cardinality(Occurrences(id)) > 1

\* C7 as stated: the entry of a repeated identifier is the outcome of the
\* occurrence whose dispatch completed last
C7_LastCompletedWins ==
    pc = "returned" =>
        \A id \in InputSet :
            Repeated(id) => Lookup(result, id) = tasks[LastCompleted(id)].retval

\* C7 amended: the entry of a repeated identifier is the outcome of the
\* occurrence that stands last in the input list, also when an earlier
\* occurrence completed after it
C7_LastPositionWins ==
    pc = "returned" =>
        \A id \in InputSet :
            Repeated(id) => Lookup(result, id) = tasks[Max(Occurrences(id))].retval

\* the first occurrence completed last, with another outcome than the second
C7_Witness ==
    /\ pc = "returned"
    /\ model_identifiers = <<s_deepseek \o <<"m">>, s_deepseek \o <<"m">>>>
    /\ completed = <<2, 1>>
    /\ tasks[1].retval # tasks[2].retval
    /\ Lookup(result, model_identifiers[2]) = tasks[2].retval

-----------------------------------------------------------------------------
(* Resolution of the identifier *)

\* the identifier begins with the registered prefix of provider p
HasPrefixOf(id, p) ==
    /\ Len(id) >= Len(PROVIDER_CONFIGS[p].model_prefix)
    /\ \A k \in 1..Len(PROVIDER_CONFIGS[p].model_prefix) :
          id[k] = PROVIDER_CONFIGS[p].model_prefix[k]

\* C8: an identifier that begins with the prefix of a registered provider
\* resolves to that provider, and the model name is the identifier without
\* that one leading prefix: prefix followed by model name is the identifier
C8_PrefixStrippedOnce ==
    \A i \in DOMAIN tasks : \A p \in Providers :
        (tasks[i].pc # "start" /\ HasPrefixOf(tasks[i].model_identifier, p)) =>
            /\ tasks[i].provider_name = Str(p)
            /\ PROVIDER_CONFIGS[p].model_prefix \o tasks[i].model_name
                  = tasks[i].model_identifier

\* a prefix occurs again inside the model name and is kept
C8_Witness ==
    /\ pc = "returned"
    /\ tasks[1].model_identifier = s_openai \o s_deepseek
    /\ tasks[1].provider_name = Str("openai")
    /\ tasks[1].model_name = s_deepseek

\* C9: an identifier that begins with no registered prefix, the empty one
\* included, resolves to openrouter with the identifier as the model name
C9_DefaultProvider ==
    \A i \in DOMAIN tasks :
        (tasks[i].pc # "start"
           /\ \A p \in Providers : ~HasPrefixOf(tasks[i].model_identifier, p)) =>
            /\ tasks[i].provider_name = Str("openrouter")
            /\ tasks[i].model_name = tasks[i].model_identifier

\* a prefix stands inside the identifier, not at its start
C9_Witness ==
    /\ pc = "returned"
    /\ tasks[1].model_identifier = <<"m">> \o s_deepseek
    /\ tasks[1].provider_name = Str("openrouter")
    /\ tasks[1].model_name = <<"m">> \o s_deepseek

-----------------------------------------------------------------------------
(* Normalization of a success response *)

\* a success status with a JSON body whose choices[0].message is an object
HasMessageObject(r) ==
    /\ r.exc = ""
    /\ r.status_code \in 200..299
    /\ r.is_json
    /\ r.data.t = "dict"
    /\ \E c \in r.data.v :
          /\ c[1] = "choices"
          /\ c[2].t = "list"
          /\ Len(c[2].v) > 0
          /\ c[2].v[1].t = "dict"
          /\ \E m \in c[2].v[1].v : m[1] = "message" /\ m[2].t = "dict"

\* the message object of such a response
MessageOf(r) ==
    LET c == CHOOSE c \in r.data.v : c[1] = "choices"
    IN  (CHOOSE m \in c[2].v[1].v : m[1] = "message")[2]

\* the field of the message, null when the message has no such field
FieldOrNull(message, k) ==
    IF \E f \in message.v : f[1] = k
    THEN (CHOOSE f \in message.v : f[1] = k)[2]
    ELSE None

\* C10: on such a response the dispatch returns {content, reasoning_details}
\* with the message's fields, null for a field the message lacks, and not
\* the absence marker
C10_NormalizedResult ==
    \A i \in DOMAIN tasks :
        (tasks[i].pc = "done" /\ tasks[i].posts > 0
           /\ HasMessageObject(tasks[i].response)) =>
            /\ tasks[i].retval # None
            /\ tasks[i].retval =
                  Dict({<<"content", FieldOrNull(MessageOf(tasks[i].response), "content")>>,
                        <<"reasoning_details",
                          FieldOrNull(MessageOf(tasks[i].response), "reasoning_details")>>})
            /\ pc = "returned" => result = tasks[i].retval

\* the message has a content and no reasoning_details
C10_Witness ==
    /\ pc = "returned"
    /\ tasks[1].response = HttpResponse(200, TRUE, GoodBody(Dict({<<"content", Str("hi")>>})))
    /\ result = Dict({<<"content", Str("hi")>>, <<"reasoning_details", None>>})

-----------------------------------------------------------------------------
(* Non-success status *)

\* C11: on a status outside 2xx the dispatch returns None whatever the
\* body is, and the body is never parsed: the exception handled is that of
\* the status check, also when the body is no JSON or is a well-formed one
C11_StatusCheckedFirst ==
    \A i \in DOMAIN tasks :
        (tasks[i].pc \in {"closing", "done"} /\ tasks[i].posts > 0
           /\ tasks[i].response.exc = ""
           /\ tasks[i].response.status_code \notin 200..299) =>
            /\ tasks[i].pending.raised
            /\ tasks[i].pending.exc = "HTTPStatusError"
            /\ tasks[i].pc = "done" => tasks[i].retval = None
            /\ (tasks[i].pc = "done" /\ pc = "returned") => result = None

\* status 500 with a body that holds a well-formed message
C11_Witness ==
    /\ pc = "returned"
    /\ tasks[1].response =
          HttpResponse(500, TRUE, GoodBody(Dict({<<"content", Str("hi")>>})))
    /\ result = None

-----------------------------------------------------------------------------
(* The client, the POSTs and their content *)

\* C13: the client of a dispatch lives within the call: it exists exactly
\* when a POST was sent, and on every path on which the dispatch returns it
\* has been closed; once the caller has its result no client is open
C13_ClientClosedBeforeReturn ==
    /\ \A i \in DOMAIN tasks :
          /\ tasks[i].posts = 0 <=> tasks[i].client = "none"
          /\ tasks[i].pc = "posting" => tasks[i].client = "open"
          /\ Finished(tasks[i]) => tasks[i].client # "open"
    /\ pc = "returned" => \A i \in DOMAIN tasks : tasks[i].client # "open"

\* the body was no JSON: the parse exception left the block, the client is closed
C13_Witness ==
    /\ pc = "returned"
    /\ tasks[1].response = HttpResponse(200, FALSE, None)
    /\ tasks[1].pending.exc = "JSONDecodeError"
    /\ tasks[1].client = "closed"

RECURSIVE TotalPosts(_, _)
TotalPosts(ts, n) == IF n = 0 THEN 0 ELSE TotalPosts(ts, n - 1) + ts[n].posts

\* C14: no retry: a dispatch sends at most one POST, exactly one when its
\* provider has a credential and none otherwise, also when the POST fails;
\* the fan-out sends at most one POST per occurrence of an identifier
C14_NoRetry ==
    /\ \A i \in DOMAIN tasks :
          /\ tasks[i].posts <= 1
          /\ tasks[i].pc # "start" =>
                tasks[i].posts = IF CredentialOf(tasks[i]) \in {None, Str("")} THEN 0 ELSE 1
    /\ pc \in {"gather", "returned"} =>
          TotalPosts(tasks, Len(tasks)) <= Len(model_identifiers)

\* both POSTs failed, one on the connection and one on the status
C14_Witness ==
    /\ pc = "returned"
    /\ Len(model_identifiers) = 2
    /\ tasks[1].response.exc = "ConnectError"
    /\ tasks[2].response.status_code = 500
    /\ tasks[1].posts = 1
    /\ tasks[2].posts = 1

\* C15: a POST is built from the configuration of the provider its own
\* identifier resolved to: that provider's URL, that provider's header prefix
\* followed by that provider's credential, the bare model name and the
\* caller's messages; no other provider's credential or URL appears in it
C15_RequestFromOwnProvider ==
    \A i \in DOMAIN tasks :
        tasks[i].posts > 0 =>
            LET own == PROVIDER_CONFIGS[tasks[i].provider_name.v]
                request == tasks[i].request
            IN  /\ request.url = own.api_url
                /\ request.Authorization = <<own.header_auth_prefix, own.api_key.v>>
                /\ request.model = tasks[i].model_name
                /\ request.messages = messages
                /\ \A q \in Providers \ {tasks[i].provider_name.v} :
                      /\ request.url # PROVIDER_CONFIGS[q].api_url
                      /\ PROVIDER_CONFIGS[q].api_key.t = "str" =>
                            request.Authorization[2] # PROVIDER_CONFIGS[q].api_key.v

\* a POST to deepseek while openrouter, the default provider, has a credential
C15_Witness ==
    /\ pc = "returned"
    /\ tasks[1].model_identifier = s_deepseek \o <<"m">>
    /\ PROVIDER_CONFIGS["openrouter"].api_key = Str("sk-openrouter")
    /\ tasks[1].request.url = DEEPSEEK_API_URL
    /\ tasks[1].request.Authorization = <<"Bearer ", "sk-deepseek">>
    /\ tasks[1].request.model = <<"m">>
    /\ Len(tasks[1].request.messages) = 2

-----------------------------------------------------------------------------
(* Repeated identifiers, by position *)

\* C19: the outcome of a dispatch is the entry of its identifier exactly
\* when no later position of the input list holds the same identifier; the
\* order in which the dispatches complete plays no part
C19_LastOccurrenceByPosition ==
    pc = "returned" =>
        \A i \in Positions :
            (Repeated(model_identifiers[i])
               /\ \A j \in Positions : j > i => model_identifiers[j] # model_identifiers[i]) =>
                Lookup(result, model_identifiers[i]) = tasks[i].retval

\* the first occurrence succeeded and completed last, the second one failed
\* earlier: the entry is the failure
C19_Witness ==
    /\ pc = "returned"
    /\ model_identifiers = <<<<"m">>, <<"m">>>>
    /\ completed = <<2, 1>>
    /\ tasks[1].retval # None
    /\ tasks[2].retval = None
    /\ Lookup(result, <<"m">>) = None

-----------------------------------------------------------------------------
(* The resolved provider is registered *)

\* C20: whatever the identifier, the provider a dispatch resolves is a
\* string that names an entry of PROVIDER_CONFIGS, so that the lookup of
\* the configuration never misses
C20_ResolvedProviderRegistered ==
    \A i \in DOMAIN tasks :
        tasks[i].pc # "start" =>
            /\ tasks[i].provider_name.t = "str"
            /\ tasks[i].provider_name.v \in DOMAIN PROVIDER_CONFIGS
            /\ tasks[i].posts = 0 => KeyMissing(CredentialOf(tasks[i]))

\* the empty identifier takes the default, which is registered
C20_Witness ==
    /\ pc = "returned"
    /\ tasks[1].model_identifier = <<>>
    /\ tasks[1].provider_name = Str("openrouter")
    /\ "openrouter" \in DOMAIN PROVIDER_CONFIGS
    /\ tasks[1].posts = 1

-----------------------------------------------------------------------------
(* The scan over a registry whose prefixes overlap *)

\* With the literal prefixes no identifier begins with two of them.  The
\* scan itself reads whatever the module-level dict holds, so it is run here
\* on registries whose entries carry other prefixes, some of which begin one
\* another or are equal.
PrefixChoices ==
    {s_openrouter, s_deepseek, s_openai,
     <<"o","p","e","n">>, <<"o","p","e","n","a","i",":">>}

AllSet == [p \in Providers |-> Str("sk-" \o p)]

RegistryWith(prefixes) ==
    [p \in Providers |-> [ProviderConfigs(AllSet)[p] EXCEPT !.model_prefix = prefixes[p]]]

InitRegistry ==
    /\ PROVIDER_CONFIGS \in {RegistryWith(prefixes) : prefixes \in [Providers -> PrefixChoices]}
    /\ Idle

NextRegistry ==
    \/ \E id \in Identifiers : CallOne(id, <<[role |-> "user", content |-> "q"]>>)
    \/ Dispatch(1)
    \/ \E response \in {TransportRaises("ConnectError"),
                        HttpResponse(200, TRUE, GoodBody(Dict({<<"content", Str("hi")>>})))} :
          Receive(1, response)
    \/ Close(1)
    \/ ReturnOne

SpecRegistry == InitRegistry /\ [][NextRegistry]_vars

\* the positions in registration order whose prefix the identifier begins with
Matching(id) == {k \in 1..Len(ProviderOrder) : HasPrefixOf(id, ProviderOrder[k])}

First(S) == CHOOSE x \in S : \A y \in S : x <= y

\* C17: when the identifier begins with the prefixes of two or more
\* registered providers, the provider registered first among them is taken
\* and it is that provider's prefix that is removed
C17_FirstRegisteredWins ==
    \A i \in DOMAIN tasks :
        (tasks[i].pc # "start" /\ Cardinality(Matching(tasks[i].model_identifier)) >= 2) =>
            LET p == ProviderOrder[First(Matching(tasks[i].model_identifier))]
            IN  /\ tasks[i].provider_name = Str(p)
                /\ PROVIDER_CONFIGS[p].model_prefix \o tasks[i].model_name
                      = tasks[i].model_identifier

\* deepseek, registered before openai, carries a prefix that begins the
\* prefix of openai: it wins and only its shorter prefix is removed
C17_Witness ==
    /\ pc = "returned"
    /\ PROVIDER_CONFIGS["openrouter"].model_prefix = s_openrouter
    /\ PROVIDER_CONFIGS["deepseek"].model_prefix = <<"o","p","e","n","a","i",":">>
    /\ PROVIDER_CONFIGS["openai"].model_prefix = s_openai
    /\ tasks[1].model_identifier = s_openai \o <<"m">>
    /\ tasks[1].provider_name = Str("deepseek")
    /\ tasks[1].model_name = <<":", "m">>

-----------------------------------------------------------------------------
(* Nothing is retained between calls *)

\* a task as a call creates it: nothing of an earlier dispatch is in it
Fresh(t) ==
    /\ t.pc = "start"
    /\ t.client = "none"
    /\ t.posts = 0
    /\ t.request = NoRequest
    /\ t.response = TransportRaises("")
    /\ t.retval = None

\* what a step of the program leaves as it was
NoStateRetained ==
    /\ PROVIDER_CONFIGS' = PROVIDER_CONFIGS
    /\ (pc # "gather" /\ pc' = "gather") =>
          /\ completed' = <<>>
          /\ \A i \in DOMAIN tasks' :
                /\ Fresh(tasks'[i])
                /\ tasks'[i].model_identifier = model_identifiers'[i]
                /\ tasks'[i].messages = messages'
    /\ pc' = pc =>
          \A i, j \in DOMAIN tasks :
              (tasks'[i] # tasks[i] /\ tasks'[j] # tasks[j]) => i = j
    /\ \A i \in DOMAIN tasks' :
          (tasks'[i].pc = "done" /\ (i \notin DOMAIN tasks \/ tasks[i] # tasks'[i])) =>
              tasks'[i].retval = SoloOutcome(tasks'[i].model_identifier, tasks'[i].response)

\* C18: no step of any call changes the registry; a call starts from tasks
\* that carry nothing of earlier calls; a step of one dispatch changes no
\* other dispatch; and what a dispatch returns is what it returns alone on
\* its identifier, the messages and its own transport behaviour
C18_NoStateBetweenCalls == [][NoStateRetained]_vars

\* two dispatches of one identifier and one message list ran together and
\* differ in their outcome as their transport behaviours differ
C18_Witness ==
    /\ pc = "gather"
    /\ Len(model_identifiers) = 2
    /\ model_identifiers[1] = model_identifiers[2]
    /\ tasks[1].pc = "done" /\ tasks[1].posts = 1 /\ tasks[1].retval = None
    /\ tasks[2].pc = "done" /\ tasks[2].retval # None

-----------------------------------------------------------------------------
(* The time a fan-out takes *)

\* the time between the POST of a dispatch and its answer; none for a
\* dispatch that sent no POST
Latency(i) == clock.received[i] - clock.sent[i]

\* C12: counting only the time spent waiting for the network, every
\* dispatch has sent its POST (or has returned) before any time passes, and
\* the fan-out returns at the greatest of the latencies of its dispatches,
\* not at their sum
C12_TimeIsMaxLatency ==
    /\ clock.now > 0 => \A i \in DOMAIN tasks : tasks[i].pc # "start"
    /\ \A i \in DOMAIN tasks : clock.sent[i] = 0
    /\ pc = "returned" => clock.now = Max({Latency(i) : i \in Positions} \cup {0})

\* latencies of one and of two units: the fan-out takes two, not three
C12_Witness ==
    /\ pc = "returned"
    /\ Len(model_identifiers) = 2
    /\ Latency(1) = 1
    /\ Latency(2) = 2
    /\ clock.now = 2

-----------------------------------------------------------------------------
(* Termination of the fan-out *)

AllDone == \A i \in DOMAIN tasks : tasks[i].pc = "done"

\* the fan-out waits for its dispatches and for nothing else: it can return
\* exactly when all of them have, and no dispatch that waits is blocked
OnlyWaitsForDispatches ==
    pc = "gather" =>
        /\ AllDone <=> ENABLED ReturnParallel
        /\ \A i \in DOMAIN tasks : tasks[i].pc # "done" => CanStep(i)

\* C16: when every POST is answered or fails in the end, a fan-out that
\* was called returns; until then it waits on its dispatches only
C16_EventuallyReturns ==
    /\ []OnlyWaitsForDispatches
    /\ (pc = "gather") ~> (pc = "returned")

\* two POSTs that both failed, the second to be answered on its status
C16_Witness ==
    /\ pc = "returned"
    /\ Len(model_identifiers) = 2
    /\ completed = <<1, 2>>
    /\ tasks[1].pending.exc = "ConnectError"
    /\ tasks[2].pending.exc = "HTTPStatusError"

====
